---- MODULE Spec2Model ----
(***************************************************************************)
(* A model of the ICE-flights data pipeline (src/data.py) and of the       *)
(* dashboard that feeds it (src/app.py).                                   *)
(*                                                                         *)
(* Cells.  A spreadsheet cell is Null, a number Num(n) or a text Str(s).   *)
(* A text is the sequence of its characters, so that strip(), title(),     *)
(* split() and the ordering of texts are computed, not assumed.  NaN, NaT  *)
(* and None are all Null: pandas' notna()/dropna()/fillna() treat them     *)
(* alike.  A timestamp is Num(t), t counted in ticks of 1/TicksPerDay day. *)
(***************************************************************************)
EXTENDS Integers, Sequences, FiniteSets, TLC

VARIABLES
    pc,          \* "start" | "loaded" | "failed" | "serving" | "called" (pure-function runs)
    df_raw,      \* the first table of the spreadsheet as read: all its rows, cells by position
    source,      \* the data rows load_data cut from it (df_raw.iloc[2:-2] under the header)
    daily_data,  \* load_data()[0]: the gap-filled daily summary
    flight_data, \* load_data()[1]: df_clean, the normalized table
    result,      \* what the last aggregator call returned: [fn, rows]
    start_date,  \* input.start_date(), a calendar day
    end_date,    \* input.end_date(), a calendar day
    view_type,   \* input.view_type()
    chart,       \* the table daily_chart() last handed to the chart layer: [view, rows]
    calls,       \* the aggregator calls in flight, one per thread: [pc, fn, local, ret]
    arg,         \* the argument of a pure-function run
    ret          \* its return value

vars == <<pc, df_raw, source, daily_data, flight_data, result, start_date, end_date,
          view_type, chart, calls, arg, ret>>

---------------------------------------------------------------------------
(* Bounds of the model. *)

MaxRows == 2
MaxDay == 3
MaxCount == 1
MaxCatRows == 3
MaxCodes == 3
MaxRouteLen == 5
TicksPerDay == 2
MaxThreads == 2

---------------------------------------------------------------------------
(* Cells and texts. *)

Null == [k |-> "null"]

Num(n) == [k |-> "num", v |-> n]

Str(s) == [k |-> "str", s |-> s]

\* Series.notna()
notna(c) == c.k # "null"

\* isinstance(x, str)
isstr(c) == c.k = "str"

\* ord(c) of the characters the model uses; of a run of letters (a piece of a
\* route or an airport code), that of its first letter: the runs of the model
\* differ in their first letter
Ord(c) ==
    CASE c = " " -> 32
      [] c = "-" -> 45
      [] c = "0" -> 48
      [] c = "1" -> 49
      [] c = "2" -> 50
      [] c = "3" -> 51
      [] c = "4" -> 52
      [] c = "5" -> 53
      [] c = "6" -> 54
      [] c = "7" -> 55
      [] c = "8" -> 56
      [] c = "9" -> 57
      [] c = "A" -> 65
      [] c = "D" -> 68
      [] c = "MSP" -> 77
      [] c = "O" -> 79
      [] c = "OMA" -> 79
      [] c = "S" -> 83
      [] c = "V" -> 86
      [] c = "X" -> 88
      [] c = "a" -> 97
      [] c = "d" -> 100
      [] c = "msp" -> 109
      [] c = "oma" -> 111
      [] c = "s" -> 115
      [] OTHER -> 0

\* str.isspace() of one character
IsSpace(c) == c = " "

\* the cased characters the model uses, lower to upper
UpperOf(c) ==
    CASE c = "a" -> "A"
      [] c = "d" -> "D"
      [] c = "s" -> "S"
      [] c = "msp" -> "MSP"
      [] c = "oma" -> "OMA"
      [] OTHER -> c

LowerOf(c) ==
    CASE c = "A" -> "a"
      [] c = "D" -> "d"
      [] c = "S" -> "s"
      [] OTHER -> c

IsCased(c) == UpperOf(c) # c \/ LowerOf(c) # c

RECURSIVE LStrip(_)
LStrip(s) == IF s # <<>> /\ IsSpace(Head(s)) THEN LStrip(Tail(s)) ELSE s

RECURSIVE RStrip(_)
RStrip(s) ==
    IF s # <<>> /\ IsSpace(s[Len(s)]) THEN RStrip(SubSeq(s, 1, Len(s) - 1)) ELSE s

\* str.strip()
Strip(s) == RStrip(LStrip(s))

\* str.upper()
Upper(s) == [i \in 1..Len(s) |-> UpperOf(s[i])]

\* str.title(): a cased character is upper-cased when it follows an uncased one
\* (or starts the text) and lower-cased when it follows a cased one
Title(s) ==
    [i \in 1..Len(s) |->
        IF i > 1 /\ IsCased(s[i - 1]) THEN LowerOf(s[i]) ELSE UpperOf(s[i])]

\* s < t in Python's ordering of str (lexicographic by code point)
RECURSIVE StrLess(_, _)
StrLess(s, t) ==
    IF t = <<>> THEN FALSE
    ELSE IF s = <<>> THEN TRUE
    ELSE IF Head(s) = Head(t) THEN StrLess(Tail(s), Tail(t))
    ELSE Ord(Head(s)) < Ord(Head(t))

\* the sequences over S of length at most n
SeqsUpTo(S, n) == UNION {[1..m -> S] : m \in 0..n}

\* the permutations of 1..n, as functions
Perms(n) == {p \in [1..n -> 1..n] : \A i, j \in 1..n : p[i] = p[j] => i = j}

---------------------------------------------------------------------------
(* The estimation-method summarizer, data.py:5-21. *)

DescV == "Formula based on the number and types of vehicles bringing detainees to the flight"

DescA == "Average based on similar flights in same timeframe"

DescO == "Estimate based on an observer who was present, but not directly counting"

\* the keys of EST_METHOD_DESCRIPTIONS
EstMethodCodes == {<<"V">>, <<"A">>, <<"O">>}

\* EST_METHOD_DESCRIPTIONS[code]
EST_METHOD_DESCRIPTIONS(code) ==
    CASE code = <<"V">> -> DescV
      [] code = <<"A">> -> DescA
      [] code = <<"O">> -> DescO

Digits == <<"0", "1", "2", "3", "4", "5", "6", "7", "8", "9">>

\* str(n) of a natural number
RECURSIVE NatToStr(_)
NatToStr(n) ==
    IF n < 10 THEN <<Digits[n + 1]>> ELSE NatToStr(n \div 10) \o <<Digits[(n % 10) + 1]>>

\* str(c) of a non-null cell
StrOf(c) == IF isstr(c) THEN c.s ELSE NatToStr(c.v)

\* Series.dropna()
dropna(cells) == SelectSeq(cells, notna)

\* Series.unique(): the distinct values in order of first appearance
RECURSIVE unique(_)
unique(cells) ==
    IF cells = <<>> THEN <<>>
    ELSE LET n == Len(cells)
             u == unique(SubSeq(cells, 1, n - 1))
         IN  IF \E i \in 1..Len(u) : u[i] = cells[n] THEN u ELSE Append(u, cells[n])

\* insert text x into the sorted list ss, after the texts equal to it
RECURSIVE InsertSorted(_, _)
InsertSorted(ss, x) ==
    IF ss = <<>> THEN <<x>>
    ELSE IF StrLess(x, Head(ss)) THEN <<x>> \o ss
    ELSE <<Head(ss)>> \o InsertSorted(Tail(ss), x)

\* sorted(...) of a list of texts
RECURSIVE SortedTexts(_)
SortedTexts(ss) ==
    IF ss = <<>> THEN <<>>
    ELSE InsertSorted(SortedTexts(SubSeq(ss, 1, Len(ss) - 1)), ss[Len(ss)])

\* sep.join(parts), as the sequence of the pieces of the text
RECURSIVE Join(_, _)
Join(parts, sep) ==
    IF parts = <<>> THEN <<>>
    ELSE IF Len(parts) = 1 THEN <<parts[1]>>
    ELSE <<parts[1], sep>> \o Join(Tail(parts), sep)

\* the codes in order of appearance
EstCodes_unsorted(unique_codes) ==
    [i \in 1..Len(unique_codes) |-> Strip(StrOf(unique_codes[i]))]

\* the codes sorted as written, blanks kept
EstCodes_unstripped(unique_codes) ==
    SortedTexts([i \in 1..Len(unique_codes) |-> StrOf(unique_codes[i])])

\* data.py:16: the codes in the order the loop visits them
EstCodesInOrder(unique_codes) ==
    SortedTexts([i \in 1..Len(unique_codes) |-> Strip(StrOf(unique_codes[i]))])

_format_est_methods(methods_series) ==
    LET unique_codes == unique(dropna(methods_series))
        codes == EstCodesInOrder(unique_codes)
        known == SelectSeq(codes, LAMBDA code : code \in EstMethodCodes)
        descriptions == [i \in 1..Len(known) |-> EST_METHOD_DESCRIPTIONS(known[i])]
    IN  IF descriptions = <<>> THEN Str(<<>>) ELSE Str(Join(descriptions, "; "))

---------------------------------------------------------------------------
(* Final destination, data.py:55-67.  A route text is the sequence of its  *)
(* pieces: "-", " " or a run of letters (an airport code as written).      *)

\* s.split(sep): the segments between the separators, empty ones included
RECURSIVE Split(_, _)
Split(s, sep) ==
    IF \A i \in 1..Len(s) : s[i] # sep THEN <<s>>
    ELSE LET i == CHOOSE j \in 1..Len(s) : s[j] = sep /\ \A h \in 1..(j - 1) : s[h] # sep
         IN  <<SubSeq(s, 1, i - 1)>> \o Split(SubSeq(s, i + 1, Len(s)), sep)

\* the segments trimmed, the empty ones kept
RouteStops_keep_empty(text) ==
    LET segs == Split(text, "-")
    IN  [i \in 1..Len(segs) |-> Strip(segs[i])]

\* data.py:60
RouteStops(text) ==
    LET segs == Split(text, "-")
        stripped == [i \in 1..Len(segs) |-> Strip(segs[i])]
    IN  SelectSeq(stripped, LAMBDA seg : seg # <<>>)

_parse_final_destination(route) ==
    IF ~isstr(route) THEN Null
    ELSE IF Strip(route.s) = <<>> THEN Null
    ELSE LET stops == RouteStops(route.s)
             n == Len(stops)
         IN  IF stops = <<>> THEN Null
             ELSE IF n >= 2 /\ Upper(stops[n]) = <<"MSP">> THEN Str(Upper(stops[n - 1]))
             ELSE Str(Upper(stops[n]))

---------------------------------------------------------------------------
(* pandas on tables.  A table is a sequence of rows, a row a record of     *)
(* cells.                                                                  *)

\* df[col]
Column(df, col) == [i \in 1..Len(df) |-> df[i][col]]

\* Series.sum(): NaN is skipped, the sum of nothing is 0
RECURSIVE Sum(_)
Sum(cells) ==
    IF cells = <<>> THEN 0
    ELSE (IF notna(Head(cells)) THEN Head(cells).v ELSE 0) + Sum(Tail(cells))

\* a - b of two numeric cells: NaN when either is
Minus(a, b) == IF notna(a) /\ notna(b) THEN Num(a.v - b.v) ELSE Null

\* Series.fillna(value)
fillna_cell(c, value) == IF notna(c) THEN c ELSE value

\* the named columns assigned, not filled
fillna_overwrite(df, values) ==
    [i \in 1..Len(df) |->
        [col \in DOMAIN df[i] |->
            IF col \in DOMAIN values THEN values[col] ELSE df[i][col]]]

\* DataFrame.fillna({col: value}): only the named columns are filled
fillna(df, values) ==
    [i \in 1..Len(df) |->
        [col \in DOMAIN df[i] |->
            IF col \in DOMAIN values THEN fillna_cell(df[i][col], values[col])
            ELSE df[i][col]]]

\* Series.dt.date of a timestamp: its calendar day
dt_date(c) == IF notna(c) THEN Num(c.v \div TicksPerDay) ELSE Null

\* pd.to_datetime of a calendar day: its midnight
to_datetime_day(c) == IF notna(c) THEN Num(c.v * TicksPerDay) ELSE Null

\* a set of integers in ascending order
RECURSIVE Ascending(_)
Ascending(S) ==
    IF S = {} THEN <<>>
    ELSE LET m == CHOOSE x \in S : \A y \in S : x <= y
         IN  <<m>> \o Ascending(S \ {m})

\* a set of texts in ascending order
RECURSIVE AscendingTexts(_)
AscendingTexts(S) ==
    IF S = {} THEN <<>>
    ELSE LET m == CHOOSE x \in S : \A y \in S \ {x} : StrLess(x, y)
         IN  <<m>> \o AscendingTexts(S \ {m})

\* the keys of df.groupby(df['Date'].dt.date): the days present, ascending;
\* rows whose date is NaT belong to no group
DayKeys(df) ==
    Ascending({dt_date(df[i].Date).v : i \in {j \in 1..Len(df) : notna(df[j].Date)}})

\* the group of day d
DayGroup(df, d) == SelectSeq(df, LAMBDA r : notna(r.Date) /\ dt_date(r.Date).v = d)

\* the keys of df.groupby(col): the texts present, ascending; null keys are dropped
TextKeys(df, col) ==
    AscendingTexts({df[i][col].s : i \in {j \in 1..Len(df) : notna(df[j][col])}})

\* the group of key s
TextGroup(df, col, s) == SelectSeq(df, LAMBDA r : notna(r[col]) /\ r[col].s = s)

\* the observed sum taken from the total column
AggSums_copied(group) ==
    [Deportees |-> Num(Sum(Column(group, "Deportees"))),
     Deportee_observed |-> Num(Sum(Column(group, "Deportees"))),
     Deportees_Estimated |-> Num(Sum(Column(group, "Deportees_Estimated"))),
     Est_Method |-> _format_est_methods(Column(group, "Est_Method"))]

\* .agg({'Deportees': 'sum', 'Deportee (observed)': 'sum',
\*       'Deportees_Estimated': 'sum', 'Est_Method': _format_est_methods})
AggSums(group) ==
    [Deportees |-> Num(Sum(Column(group, "Deportees"))),
     Deportee_observed |-> Num(Sum(Column(group, "Deportee_observed"))),
     Deportees_Estimated |-> Num(Sum(Column(group, "Deportees_Estimated"))),
     Est_Method |-> _format_est_methods(Column(group, "Est_Method"))]

\* date_range with the end left out
date_range_open(min_date, max_date) ==
    [i \in 1..((max_date - min_date) \div TicksPerDay) |->
        Num(min_date + (i - 1) * TicksPerDay)]

\* pd.date_range(start, end, freq='D'): the days from start to end inclusive
date_range(min_date, max_date) ==
    [i \in 1..(((max_date - min_date) \div TicksPerDay) + 1) |->
        Num(min_date + (i - 1) * TicksPerDay)]

\* complete_df.merge(table, on='Date', how='left'): every date of the range in
\* order, with the rows of the table on that date, or one row of NaN if none
RECURSIVE merge_left(_, _, _)
merge_left(dates, table, cols) ==
    IF dates = <<>> THEN <<>>
    ELSE LET hits == SelectSeq(table, LAMBDA r : r.Date = Head(dates))
             nan == [c \in cols |-> IF c = "Date" THEN Head(dates) ELSE Null]
         IN  (IF hits = <<>> THEN <<nan>> ELSE hits) \o merge_left(Tail(dates), table, cols)

\* Series.min() / Series.max() of the Date column of a non-empty table
MinDate(table) == CHOOSE t \in {table[i].Date.v : i \in 1..Len(table)} :
                      \A i \in 1..Len(table) : t <= table[i].Date.v

MaxDate(table) == CHOOSE t \in {table[i].Date.v : i \in 1..Len(table)} :
                      \A i \in 1..Len(table) : t >= table[i].Date.v

\* the range taken from day 0 when the table has no row
FillMissingDays_from_epoch(table, values) ==
    IF table = <<>> THEN <<[Date |-> Num(0)] @@ values>>
    ELSE fillna(merge_left(date_range(MinDate(table), MaxDate(table)), table,
                           DOMAIN table[1]),
                values)

\* "Fill in missing days with zero values": data.py:86-102, 115-124, 145-154
FillMissingDays(table, values) ==
    IF table = <<>> THEN table
    ELSE fillna(merge_left(date_range(MinDate(table), MaxDate(table)), table,
                           DOMAIN table[1]),
                values)

---------------------------------------------------------------------------
(* load_data, data.py:24-104.  The sheet as read, df_raw, is a sequence of  *)
(* rows and a row a sequence of cells, one per column of the sheet.  A     *)
(* column name is a text of one piece; 'Deportee (observed)', 'Est Method  *)
(* (Vehicle, Average, Observer Estimate)', 'Day's Route' and 'Deportees    *)
(* Off' are written Deportee_observed, Est_Method, Days_Route and          *)
(* Deportees_Off, the names the records of the model carry.                *)

\* the columns of the sheet that the pipeline reads, in the sheet's order
ColumnNames ==
    <<"Date", "Deportees", "Deportee_observed", "Est_Method", "Airline", "To", "Tail",
      "Days_Route", "Deportees_Off">>

\* the columns load_data itself looks up: a missing one is a KeyError
LoadColumns == {"Date", "Deportees", "Deportee_observed", "Est_Method", "Days_Route"}

\* data.py:38: df_raw.iloc[1].tolist(), on a table that has a row at index 1
header_row(table) == table[2]

\* the names a header row gives: its text cells (the headers of the model name
\* no column twice)
NamesOf(header) ==
    {header[p].s[1] : p \in {q \in 1..Len(header) : isstr(header[q]) /\ Len(header[q].s) = 1}}

\* the rows from index 2 on, the last one only left out
iloc_2_to_last(table) == SubSeq(table, 3, Len(table) - 1)

\* data.py:42: df_raw.iloc[2:-2], a slice: empty when the table has four rows or fewer
iloc_2_to_minus_2(table) == SubSeq(table, 3, Len(table) - 2)

\* df_clean.columns = header_row: the place of each named column
PlaceOf(header) ==
    [name \in NamesOf(header) |-> CHOOSE p \in 1..Len(header) : header[p] = Str(<<name>>)]

\* data.py:38-43: the data rows under the header's names
read_rows(table) ==
    LET rows == iloc_2_to_minus_2(table)
        place == PlaceOf(header_row(table))
    IN  [i \in 1..Len(rows) |-> [name \in DOMAIN place |-> rows[i][place[name]]]]

\* whether reading raises: iloc[1] on fewer than two rows is an IndexError,
\* df_clean[name] of a name the header lacks a KeyError
ReaderRaises(table) ==
    \/ Len(table) < 2
    \/ ~(LoadColumns \subseteq NamesOf(header_row(table)))

\* a text that pd.to_numeric parses: one made of digits
IsNumericText(s) == s # <<>> /\ \A i \in 1..Len(s) : \E d \in 1..10 : Digits[d] = s[i]

RECURSIVE ParseNat(_)
ParseNat(s) ==
    IF s = <<>> THEN 0
    ELSE 10 * ParseNat(SubSeq(s, 1, Len(s) - 1))
         + (CHOOSE d \in 0..9 : Digits[d + 1] = s[Len(s)])

\* whether pd.to_numeric(errors='raise') accepts the cell
CanParseNumber(c) == isstr(c) => IsNumericText(c.s)

\* pd.to_numeric of a cell it accepts
to_numeric(c) == IF isstr(c) THEN Num(ParseNat(c.s)) ELSE c

\* pd.to_numeric(errors='coerce'): what cannot be parsed becomes NaN
to_numeric_coerce(c) == IF CanParseNumber(c) THEN to_numeric(c) ELSE Null

\* whether pd.to_datetime accepts the cell: the texts of the model are no dates
CanParseDate(c) == ~isstr(c)

\* the estimate clamped at zero
Deportees_Estimated_clamped(total, observed) ==
    IF notna(total) /\ notna(observed)
    THEN Num(IF total.v > observed.v THEN total.v - observed.v ELSE 0)
    ELSE Null

\* data.py:70
Deportees_Estimated(total, observed) == Minus(total, observed)

\* data.py:46-70: one row of df_clean
CleanRow(r) ==
    LET total == to_numeric(r.Deportees)
        observed == fillna_cell(to_numeric(r.Deportee_observed), Num(0))
    IN  [Date |-> r.Date,
         Deportees |-> total,
         Deportee_observed |-> observed,
         Est_Method |-> r.Est_Method,
         Airline |-> r.Airline,
         To |-> r.To,
         Tail |-> r.Tail,
         Days_Route |-> r.Days_Route,
         Deportees_Off |-> r.Deportees_Off,
         Final_Destination |-> _parse_final_destination(r.Days_Route),
         Deportees_Estimated |-> Deportees_Estimated(total, observed)]

\* the rows that have a total and an airline
non_null_detainees_and_airline(df_clean) ==
    SelectSeq(df_clean, LAMBDA r : notna(r.Deportees) /\ notna(r.Airline))

\* data.py:72-73
non_null_detainees(df_clean) == SelectSeq(df_clean, LAMBDA r : notna(r.Deportees))

\* data.py:75-84: one row per day that has a record
DailyGroups(df) ==
    LET keys == DayKeys(df)
    IN  [i \in 1..Len(keys) |->
            [Date |-> to_datetime_day(Num(keys[i]))] @@ AggSums(DayGroup(df, keys[i]))]

\* data.py:97-102
DailyFill ==
    [Deportees |-> Num(0), Deportee_observed |-> Num(0), Deportees_Estimated |-> Num(0),
     Est_Method |-> Str(<<>>)]

\* data.py:75-102
daily_summary(df_clean) == FillMissingDays(DailyGroups(non_null_detainees(df_clean)), DailyFill)

\* whether the coercions of data.py:46-48 raise on the rows
LoadRaises(rows) ==
    \E i \in 1..Len(rows) :
        \/ ~CanParseDate(rows[i].Date)
        \/ ~CanParseNumber(rows[i].Deportees)
        \/ ~CanParseNumber(rows[i].Deportee_observed)

df_clean_of(rows) == [i \in 1..Len(rows) |-> CleanRow(rows[i])]

\* what a call of load_data gives: an exception, or the pair it returns; rows
\* is df_clean as cut from the sheet, before the coercions
Raised(rows) == [raised |-> TRUE, rows |-> rows, daily_summary |-> <<>>, df_clean |-> <<>>]

Returned(rows) ==
    [raised |-> FALSE, rows |-> rows, daily_summary |-> daily_summary(df_clean_of(rows)),
     df_clean |-> df_clean_of(rows)]

\* the rows that cannot be coerced dropped, the rest loaded
load_data_skipping(table) ==
    IF ReaderRaises(table) THEN Raised(<<>>)
    ELSE Returned(SelectSeq(read_rows(table), LAMBDA r : ~LoadRaises(<<r>>)))

\* data.py:24-104
load_data(table) ==
    IF ReaderRaises(table) THEN Raised(<<>>)
    ELSE IF LoadRaises(read_rows(table)) THEN Raised(read_rows(table))
    ELSE Returned(read_rows(table))

---------------------------------------------------------------------------
(* The aggregators, data.py:107-232. *)

\* the count taken over the records that have a total
FlightsPerDayGroups_with_total(flight_df) ==
    LET counted == SelectSeq(flight_df, LAMBDA r : notna(r.Deportees))
        keys == DayKeys(counted)
    IN  [i \in 1..Len(keys) |->
            [Date |-> to_datetime_day(Num(keys[i])),
             Flight_Count |-> Num(Len(DayGroup(counted, keys[i])))]]

FlightsPerDayGroups(flight_df) ==
    LET keys == DayKeys(flight_df)
    IN  [i \in 1..Len(keys) |->
            [Date |-> to_datetime_day(Num(keys[i])),
             Flight_Count |-> Num(Len(DayGroup(flight_df, keys[i])))]]

aggregate_flights_per_day(flight_df) ==
    FillMissingDays(FlightsPerDayGroups(flight_df), [Flight_Count |-> Num(0)])

\* data.py:131-137
OffloadedCopy(flight_df) ==
    [i \in 1..Len(flight_df) |->
        [flight_df[i] EXCEPT
            !.Deportees_Off = fillna_cell(to_numeric_coerce(@), Num(0))]]

\* the sum taken over the records that have a total
OffloadedGroups_with_total(flight_df) ==
    LET copy == OffloadedCopy(SelectSeq(flight_df, LAMBDA r : notna(r.Deportees)))
        keys == DayKeys(copy)
    IN  [i \in 1..Len(keys) |->
            [Date |-> to_datetime_day(Num(keys[i])),
             Deportees_Off |-> Num(Sum(Column(DayGroup(copy, keys[i]), "Deportees_Off")))]]

OffloadedGroups(flight_df) ==
    LET copy == OffloadedCopy(flight_df)
        keys == DayKeys(copy)
    IN  [i \in 1..Len(keys) |->
            [Date |-> to_datetime_day(Num(keys[i])),
             Deportees_Off |-> Num(Sum(Column(DayGroup(copy, keys[i]), "Deportees_Off")))]]

aggregate_detainees_offloaded_per_day(flight_df) ==
    FillMissingDays(OffloadedGroups(flight_df), [Deportees_Off |-> Num(0)])

\* df.groupby(col).agg({...}).reset_index()
CategoryGroups(df, col) ==
    LET keys == TextKeys(df, col)
    IN  [i \in 1..Len(keys) |->
            (col :> Str(keys[i])) @@ AggSums(TextGroup(df, col, keys[i]))]

\* insert row x into the table sorted by Deportees, after the rows equal to it
RECURSIVE InsertByDeportees(_, _)
InsertByDeportees(table, x) ==
    IF table = <<>> THEN <<x>>
    ELSE IF x.Deportees.v < Head(table).Deportees.v THEN <<x>> \o table
    ELSE <<Head(table)>> \o InsertByDeportees(Tail(table), x)

\* the table left in the order of its keys
sort_values_none(table) == table

\* table.sort_values('Deportees', ascending=True); for the few rows of a
\* category table numpy's sort is an insertion sort, which keeps ties in order
RECURSIVE sort_values_Deportees(_)
sort_values_Deportees(table) ==
    IF table = <<>> THEN <<>>
    ELSE InsertByDeportees(sort_values_Deportees(SubSeq(table, 1, Len(table) - 1)),
                           table[Len(table)])

\* Series.str.strip(): NaN where the value is no text
str_strip(c) == IF isstr(c) THEN Str(Strip(c.s)) ELSE Null

\* Series.str.title(): NaN where the value is no text
str_title(c) == IF isstr(c) THEN Str(Title(c.s)) ELSE Null

\* the name trimmed but not title-cased
NormalizeAirline_strip_only(c) == str_strip(c)

\* data.py:165
NormalizeAirline(c) == str_title(str_strip(c))

aggregate_detainees_by_airline(flight_df) ==
    LET valid == SelectSeq(flight_df, LAMBDA r : notna(r.Airline))
        valid_airlines ==
            [i \in 1..Len(valid) |->
                [valid[i] EXCEPT !.Airline = NormalizeAirline(@)]]
    IN  sort_values_Deportees(CategoryGroups(valid_airlines, "Airline"))

aggregate_detainees_by_destination(flight_df) ==
    LET valid_destinations == SelectSeq(flight_df, LAMBDA r : notna(r.To))
    IN  sort_values_Deportees(CategoryGroups(valid_destinations, "To"))

aggregate_detainees_by_final_destination(flight_df) ==
    LET valid == SelectSeq(flight_df, LAMBDA r : notna(r.Final_Destination))
    IN  sort_values_Deportees(CategoryGroups(valid, "Final_Destination"))

aggregate_detainees_by_tail(flight_df) ==
    LET valid == SelectSeq(flight_df, LAMBDA r : notna(r.Tail))
        stripped == [i \in 1..Len(valid) |-> [valid[i] EXCEPT !.Tail = str_strip(@)]]
    IN  sort_values_Deportees(CategoryGroups(stripped, "Tail"))

---------------------------------------------------------------------------
(* The aggregators step by step, as a thread runs them: the call takes its *)
(* working table from the caller's table, assigns a normalized column on   *)
(* it (three of the six do), and groups it.                                *)

Aggregators ==
    {"aggregate_flights_per_day", "aggregate_detainees_offloaded_per_day",
     "aggregate_detainees_by_airline", "aggregate_detainees_by_destination",
     "aggregate_detainees_by_final_destination", "aggregate_detainees_by_tail"}

\* the aggregators that assign a column: data.py:134, 165, 220
AssignsColumn ==
    {"aggregate_detainees_offloaded_per_day", "aggregate_detainees_by_airline",
     "aggregate_detainees_by_tail"}

\* data.py:131 flight_df.copy(); 162, 183, 201, 219 flight_df[...notna()].copy();
\* 109 groups flight_df itself
WorkingTable(fn, flight_df) ==
    CASE fn = "aggregate_detainees_by_airline" ->
            SelectSeq(flight_df, LAMBDA r : notna(r.Airline))
      [] fn = "aggregate_detainees_by_destination" ->
            SelectSeq(flight_df, LAMBDA r : notna(r.To))
      [] fn = "aggregate_detainees_by_final_destination" ->
            SelectSeq(flight_df, LAMBDA r : notna(r.Final_Destination))
      [] fn = "aggregate_detainees_by_tail" ->
            SelectSeq(flight_df, LAMBDA r : notna(r.Tail))
      [] OTHER -> flight_df

\* the working table after the column assignment: data.py:134-137, 165, 220
Assigned(fn, local) ==
    CASE fn = "aggregate_detainees_offloaded_per_day" ->
            [i \in 1..Len(local) |->
                [local[i] EXCEPT !.Deportees_Off = fillna_cell(to_numeric_coerce(@), Num(0))]]
      [] fn = "aggregate_detainees_by_airline" ->
            [i \in 1..Len(local) |-> [local[i] EXCEPT !.Airline = str_title(str_strip(@))]]
      [] fn = "aggregate_detainees_by_tail" ->
            [i \in 1..Len(local) |-> [local[i] EXCEPT !.Tail = str_strip(@)]]

\* the assignment made on the caller's table itself
assigned_in_place(flight_df, written) == written

\* the caller's table after an assignment on the working table: the working
\* table is a copy (.copy() at data.py:131, 162, 219), the caller's keeps its cells
assigned_on_copy(flight_df, written) == flight_df

\* the grouping of the working table and what follows it, to the return
Finished(fn, local) ==
    CASE fn = "aggregate_flights_per_day" ->
            FillMissingDays(FlightsPerDayGroups(local), [Flight_Count |-> Num(0)])
      [] fn = "aggregate_detainees_offloaded_per_day" ->
            LET keys == DayKeys(local)
                groups == [i \in 1..Len(keys) |->
                              [Date |-> to_datetime_day(Num(keys[i])),
                               Deportees_Off |->
                                   Num(Sum(Column(DayGroup(local, keys[i]), "Deportees_Off")))]]
            IN  FillMissingDays(groups, [Deportees_Off |-> Num(0)])
      [] fn = "aggregate_detainees_by_airline" ->
            sort_values_Deportees(CategoryGroups(local, "Airline"))
      [] fn = "aggregate_detainees_by_destination" ->
            sort_values_Deportees(CategoryGroups(local, "To"))
      [] fn = "aggregate_detainees_by_final_destination" ->
            sort_values_Deportees(CategoryGroups(local, "Final_Destination"))
      [] fn = "aggregate_detainees_by_tail" ->
            sort_values_Deportees(CategoryGroups(local, "Tail"))

---------------------------------------------------------------------------
(* The dashboard, app.py:518-840.  app.py carries its own copies of        *)
(* load_data and of the aggregators (app.py:10-158), the same code without *)
(* the Est_Method column; the model runs the data.py versions.             *)

\* app.py:637-649
filtered_data(daily, start, end) ==
    SelectSeq(daily, LAMBDA r : r.Date.v >= start * TicksPerDay
                                /\ r.Date.v <= end * TicksPerDay)

\* app.py:651-663: a comparison with NaT is False
filtered_flight_data(flights, start, end) ==
    SelectSeq(flights, LAMBDA r : notna(r.Date)
                                  /\ r.Date.v >= start * TicksPerDay
                                  /\ r.Date.v <= end * TicksPerDay)

Views == {"daily_detainees", "flights_per_day", "detainees_offloaded",
          "detainees_by_airline", "detainees_by_destination"}

\* app.py:751-813: the table the selected view hands to the chart layer
daily_chart(view, daily, flights, start, end) ==
    CASE view = "flights_per_day" ->
            aggregate_flights_per_day(filtered_flight_data(flights, start, end))
      [] view = "detainees_offloaded" ->
            aggregate_detainees_offloaded_per_day(filtered_flight_data(flights, start, end))
      [] view = "detainees_by_airline" ->
            aggregate_detainees_by_airline(filtered_flight_data(flights, start, end))
      [] view = "detainees_by_destination" ->
            aggregate_detainees_by_destination(filtered_flight_data(flights, start, end))
      [] OTHER -> filtered_data(daily, start, end)

\* app.py:522-523
min_date == dt_date(Num(MinDate(daily_data))).v

max_date == dt_date(Num(MaxDate(daily_data))).v

---------------------------------------------------------------------------
(* Inputs. *)

MkRow(date, total, observed, method, airline, to, tail, route, off) ==
    [Date |-> date, Deportees |-> total, Deportee_observed |-> observed,
     Est_Method |-> method, Airline |-> airline, To |-> to, Tail |-> tail,
     Days_Route |-> route, Deportees_Off |-> off]

Days == 1..MaxDay

\* midnight of day d
Midnight(d) == Num(d * TicksPerDay)

\* a date cell: empty, or a day at midnight or at the last tick of the day
Timestamps ==
    {Null} \cup {Num(d * TicksPerDay + h) : d \in Days, h \in {0, TicksPerDay - 1}}

\* a count cell: empty or a number
Counts == {Null} \cup {Num(n) : n \in 0..MaxCount}

MethodCells == {Null, Str(<<"V">>), Str(<<"A">>)}

AirlineCells == {Null, Str(<<"a", "d">>), Str(<<" ", "A", "D">>), Str(<<"s">>)}

AirportCells == {Null, Str(<<"OMA">>), Str(<<"OMA", " ">>), Str(<<"MSP">>)}

RouteCells == {Null, Str(<<"OMA", "-", "MSP">>), Str(<<"MSP", "-", "oma">>), Str(<<"msp">>)}

OffCells == Counts \cup {Str(<<"X">>)}

\* the totals of the category tables
CategoryCounts == {Null, Num(1), Num(2)}

\* the totals of the tables whose records all have one
BucketCounts == {Num(1), Num(2)}

\* the tail numbers: texts like the airports', with and without a blank
TailCells == {Null, Str(<<"OMA">>), Str(<<"OMA", " ">>)}

\* tables that vary the dates and the totals
RowsByDate ==
    {MkRow(t, n, Null, Null, Null, Null, Null, Null, Null) :
        t \in Timestamps, n \in {Null, Num(1)}}

\* tables that vary the totals and the observed counts of the records of a day
RowsByCount ==
    {MkRow(Midnight(1), n, o, Null, Null, Null, Null, Null, Null) :
        n \in Counts, o \in Counts}

\* tables that vary the estimation method
RowsByMethod ==
    {MkRow(Midnight(d), n, o, m, Null, Null, Null, Null, Null) :
        d \in {1, MaxDay}, n \in {Null, Num(1)}, o \in {Null, Num(1)}, m \in MethodCells}

\* tables that vary the offloaded count, on the first and last day, of records
\* with and without a total
RowsByOff ==
    {MkRow(Midnight(d), n, Null, Null, Null, Null, Null, Null, off) :
        d \in {1, MaxDay}, n \in {Null, Num(1)}, off \in OffCells}

RowsByAirline ==
    {MkRow(Midnight(1), n, Null, Null, a, Null, Null, Null, Null) :
        a \in AirlineCells, n \in CategoryCounts}

RowsByDestination ==
    {MkRow(Midnight(1), n, Null, Null, Null, a, Null, Null, Null) :
        a \in AirportCells, n \in BucketCounts}

RowsByTail ==
    {MkRow(Midnight(1), n, Null, Null, Null, Null, a, Null, Null) :
        a \in TailCells, n \in BucketCounts}

RowsByRoute ==
    {MkRow(Midnight(1), n, Null, Null, Null, Null, Null, r, Null) :
        r \in RouteCells, n \in BucketCounts}

\* the rows of the dashboard runs
RowsOfApp ==
    {MkRow(Midnight(d), n, o, Null, a, Null, Null, Null, Null) :
        d \in Days, n \in {Null, Num(1)}, o \in {Null, Num(1)},
        a \in {Null, Str(<<"a", "d">>)}}

CodeCells == {Null, Str(<<"V">>), Str(<<" ", "V">>), Str(<<"A">>), Str(<<"O", " ">>),
              Str(<<"X">>), Num(5)}

RoutePieces == {"-", " ", "MSP", "msp", "OMA", "oma"}

\* the routes of the documentation
RouteHrlMspOmaHrl == Str(<<"HRL", "-", "MSP", "-", "OMA", "-", "HRL">>)

RouteMspOrd == Str(<<"MSP", "-", "ORD">>)

\* a route that ends in two MSP stops
RouteHrlMspMsp == Str(<<"HRL", "-", "MSP", "-", "MSP">>)

RouteArgs ==
    {Null, Num(5), RouteHrlMspOmaHrl, RouteMspOrd, RouteHrlMspMsp}
        \cup {Str(s) : s \in SeqsUpTo(RoutePieces, MaxRouteLen)}

NoResult == [fn |-> "none", rows |-> <<>>]

NoChart == [view |-> "none", rows |-> <<>>]

\* the sheet's rows by position
RawRow(r) == [p \in 1..Len(ColumnNames) |-> r[ColumnNames[p]]]

\* row 0: the title of the sheet
TitleRow == [p \in 1..Len(ColumnNames) |-> IF p = 1 THEN Str(<<"MSP ICE Flights">>) ELSE Null]

\* row 1: the column names
HeaderRow == [p \in 1..Len(ColumnNames) |-> Str(<<ColumnNames[p]>>)]

\* the second-to-last row: a blank spacer
BlankRow == [p \in 1..Len(ColumnNames) |-> Null]

\* the last row: the sum of the totals
TotalsRow(rows) ==
    [p \in 1..Len(ColumnNames) |->
        IF ColumnNames[p] = "Deportees"
        THEN Num(Sum([i \in 1..Len(rows) |-> to_numeric_coerce(rows[i].Deportees)]))
        ELSE Null]

\* the sheet as the spreadsheet holds it: title, header, the data rows, spacer, totals
Sheet(rows) ==
    <<TitleRow, HeaderRow>> \o [i \in 1..Len(rows) |-> RawRow(rows[i])]
        \o <<BlankRow, TotalsRow(rows)>>

\* a thread that has called nothing
Idle == [pc |-> "idle", fn |-> "none", local |-> <<>>, ret |-> <<>>]

Threads == 1..MaxThreads

NoCalls == [t \in Threads |-> Idle]

\* the state before load_data() has run on a sheet
InitOn(sheets) ==
    /\ pc = "start"
    /\ df_raw \in sheets
    /\ source = <<>>
    /\ daily_data = <<>>
    /\ flight_data = <<>>
    /\ result = NoResult
    /\ start_date = 0
    /\ end_date = 0
    /\ view_type = "none"
    /\ chart = NoChart
    /\ calls = NoCalls
    /\ arg = Null
    /\ ret = Null

\* the state before load_data() has run on a well-formed sheet of the data rows
InitWith(tables) == InitOn({Sheet(rows) : rows \in tables})

\* the state before a pure function is called on an argument
InitPure(args) ==
    /\ pc = "start"
    /\ df_raw = <<>>
    /\ source = <<>>
    /\ daily_data = <<>>
    /\ flight_data = <<>>
    /\ result = NoResult
    /\ start_date = 0
    /\ end_date = 0
    /\ view_type = "none"
    /\ chart = NoChart
    /\ calls = NoCalls
    /\ arg \in args
    /\ ret = Null

Init == InitWith(SeqsUpTo(RowsOfApp, MaxRows))

InitDaily ==
    InitWith(UNION {SeqsUpTo(F, MaxRows) :
                        F \in {RowsByDate, RowsByCount, RowsByMethod, RowsByOff}})

InitCategory ==
    InitWith(UNION {SeqsUpTo(F, MaxCatRows) :
                        F \in {RowsByAirline, RowsByDestination, RowsByTail, RowsByRoute}})

InitEst == InitPure(SeqsUpTo(CodeCells, MaxCodes))

InitRoute == InitPure(RouteArgs)

\* a cell no coercion accepts
BadCell == Str(<<"X">>)

\* two flights as the sheet holds them
FlightA == MkRow(Midnight(1), Num(1), Null, Null, Null, Null, Null, Null, Null)

FlightB == MkRow(Midnight(2), Num(1), Num(1), Null, Null, Null, Null, Null, Num(1))

\* the data rows of the sheets read raw: the two flights, and flights with an
\* unparseable date, total, observed count or offloaded count
RowsOfRaw ==
    {FlightA, FlightB,
     [FlightA EXCEPT !.Date = BadCell],
     [FlightA EXCEPT !.Deportees = BadCell],
     [FlightA EXCEPT !.Deportee_observed = BadCell],
     [FlightB EXCEPT !.Deportees_Off = BadCell]}

\* the header with the columns Date and Deportees exchanged
HeaderSwapped ==
    [p \in 1..Len(ColumnNames) |->
        IF ColumnNames[p] = "Date" THEN Str(<<"Deportees">>)
        ELSE IF ColumnNames[p] = "Deportees" THEN Str(<<"Date">>)
        ELSE HeaderRow[p]]

\* sheets of fewer than four rows
ShortSheets == SeqsUpTo({TitleRow, HeaderRow, RawRow(FlightA)}, 3)

\* sheets of four rows or more: any of the rows may look like a title, a data
\* row or a blank row, whatever its place
LongSheets ==
    {<<title, header>> \o [i \in 1..Len(rows) |-> RawRow(rows[i])] \o <<spacer, totals>> :
        title \in {TitleRow, RawRow(FlightA)},
        header \in {HeaderRow, HeaderSwapped, BlankRow},
        rows \in SeqsUpTo(RowsOfRaw, MaxRows),
        spacer \in {BlankRow, RawRow(FlightB)},
        totals \in {TotalsRow(<<FlightA>>), RawRow(FlightB)}}

InitRaw == InitOn(ShortSheets \cup LongSheets)

\* the rows of the threaded runs: names written with blanks and in another
\* case, an offloaded count that is a text, keys that are null
RowsOfCalls ==
    {MkRow(Midnight(1), Num(1), Null, Null, Str(<<" ", "A", "D">>), Null,
           Str(<<"OMA", " ">>), Null, BadCell),
     MkRow(Midnight(2), Num(2), Null, Null, Str(<<"a", "d">>), Str(<<"MSP">>), Null,
           Str(<<"OMA", "-", "MSP">>), Num(1)),
     MkRow(Midnight(1), Num(1), Null, Null, Null, Str(<<"OMA">>), Str(<<"OMA">>), Null, Null)}

InitCalls == InitWith(SeqsUpTo(RowsOfCalls, MaxRows))

\* tables that vary which of the grouping keys are null
RowsByKeys ==
    {MkRow(Midnight(1), Num(1), Null, Null, a, to, tail, route, Null) :
        a \in {Null, Str(<<"a", "d">>)}, to \in {Null, Str(<<"OMA">>)},
        tail \in {Null, Str(<<"OMA">>)}, route \in {Null, Str(<<"OMA", "-", "MSP">>)}}

InitKeys == InitWith(SeqsUpTo(RowsByKeys, MaxRows))

---------------------------------------------------------------------------
(* Actions. *)

dashboard == <<start_date, end_date, view_type, chart>>

\* data.py:24-104, called at app.py:519
LoadData ==
    /\ pc = "start"
    /\ LET loaded == load_data(df_raw)
       IN  /\ pc' = IF loaded.raised THEN "failed" ELSE "loaded"
           /\ source' = loaded.rows
           /\ daily_data' = loaded.daily_summary
           /\ flight_data' = loaded.df_clean
    /\ UNCHANGED <<df_raw, result, dashboard, calls, arg, ret>>

\* a caller applies aggregator fn to the table load_data returned
Call(fn, rows) ==
    /\ pc = "loaded"
    /\ result' = [fn |-> fn, rows |-> rows]
    /\ UNCHANGED <<pc, df_raw, source, daily_data, flight_data, dashboard, calls, arg, ret>>

CallFlightsPerDay == Call("aggregate_flights_per_day", aggregate_flights_per_day(flight_data))

CallOffloadedPerDay ==
    Call("aggregate_detainees_offloaded_per_day",
         aggregate_detainees_offloaded_per_day(flight_data))

CallByAirline ==
    Call("aggregate_detainees_by_airline", aggregate_detainees_by_airline(flight_data))

CallByDestination ==
    Call("aggregate_detainees_by_destination", aggregate_detainees_by_destination(flight_data))

CallByFinalDestination ==
    Call("aggregate_detainees_by_final_destination",
         aggregate_detainees_by_final_destination(flight_data))

CallByTail == Call("aggregate_detainees_by_tail", aggregate_detainees_by_tail(flight_data))

\* the inputs change and the reactive graph re-renders daily_chart
Render(view, start, end) ==
    /\ view_type' = view
    /\ start_date' = start
    /\ end_date' = end
    /\ chart' = [view |-> view, rows |-> daily_chart(view, daily_data, flight_data, start, end)]
    /\ UNCHANGED <<df_raw, source, daily_data, flight_data, result, calls, arg, ret>>

\* app.py:521-558: the date range of the data, the inputs' first values; with
\* no daily row min_date is NaT and the module fails to import
StartApp ==
    /\ pc = "loaded"
    /\ IF daily_data = <<>>
       THEN pc' = "failed" /\ UNCHANGED <<df_raw, source, daily_data, flight_data, result,
                                          dashboard, calls, arg, ret>>
       ELSE /\ pc' = "serving"
            /\ \E current_date \in 1..(MaxDay + 1) :
                   LET default_end_date ==
                           IF current_date < max_date THEN current_date ELSE max_date
                   IN  Render("daily_detainees", min_date, default_end_date)

SetStartDate ==
    /\ pc = "serving"
    /\ \E d \in min_date..max_date : Render(view_type, d, end_date)
    /\ UNCHANGED pc

SetEndDate ==
    /\ pc = "serving"
    /\ \E d \in min_date..max_date : Render(view_type, start_date, d)
    /\ UNCHANGED pc

\* app.py:835-840
reset_date_range ==
    /\ pc = "serving"
    /\ Render(view_type, min_date, max_date)
    /\ UNCHANGED pc

SelectView ==
    /\ pc = "serving"
    /\ \E v \in Views : Render(v, start_date, end_date)
    /\ UNCHANGED pc

\* a caller applies a pure function to the argument
CallFormatEstMethods ==
    /\ pc = "start"
    /\ pc' = "called"
    /\ ret' = _format_est_methods(arg)
    /\ UNCHANGED <<df_raw, source, daily_data, flight_data, result, dashboard, calls, arg>>

CallParseFinalDestination ==
    /\ pc = "start"
    /\ pc' = "called"
    /\ ret' = _parse_final_destination(arg)
    /\ UNCHANGED <<df_raw, source, daily_data, flight_data, result, dashboard, calls, arg>>

\* thread t enters an aggregator: it takes its working table from the table
\* load_data returned
Begin(t) ==
    /\ pc = "loaded"
    /\ calls[t].pc \in {"idle", "done"}
    /\ \E fn \in Aggregators :
           calls' = [calls EXCEPT ![t] = [pc |-> "copied", fn |-> fn,
                                          local |-> WorkingTable(fn, flight_data),
                                          ret |-> <<>>]]
    /\ UNCHANGED <<pc, df_raw, source, daily_data, flight_data, result, dashboard, arg, ret>>

\* thread t assigns the normalized column
Assign(t) ==
    /\ calls[t].pc = "copied"
    /\ calls[t].fn \in AssignsColumn
    /\ LET written == Assigned(calls[t].fn, calls[t].local)
       IN  /\ calls' = [calls EXCEPT ![t].pc = "assigned", ![t].local = written]
           /\ flight_data' = assigned_on_copy(flight_data, written)
    /\ UNCHANGED <<pc, df_raw, source, daily_data, result, dashboard, arg, ret>>

\* thread t groups its working table and returns
Return(t) ==
    /\ \/ calls[t].pc = "assigned"
       \/ calls[t].pc = "copied" /\ calls[t].fn \notin AssignsColumn
    /\ calls' = [calls EXCEPT ![t].pc = "done", ![t].local = <<>>,
                              ![t].ret = Finished(calls[t].fn, calls[t].local)]
    /\ UNCHANGED <<pc, df_raw, source, daily_data, flight_data, result, dashboard, arg, ret>>

Next == LoadData \/ StartApp \/ SetStartDate \/ SetEndDate \/ reset_date_range \/ SelectView

NextDaily == LoadData \/ CallFlightsPerDay \/ CallOffloadedPerDay

NextCategory ==
    LoadData \/ CallByAirline \/ CallByDestination \/ CallByFinalDestination \/ CallByTail

\* the dashboard: load at start-up, then the user's actions
Spec == Init /\ [][Next]_vars

\* the date-keyed aggregates of the library
SpecDaily == InitDaily /\ [][NextDaily]_vars

\* the category-keyed aggregates of the library
SpecCategory == InitCategory /\ [][NextCategory]_vars

SpecEst == InitEst /\ [][CallFormatEstMethods]_vars

SpecRoute == InitRoute /\ [][CallParseFinalDestination]_vars

\* the dashboard started on a sheet of any shape
SpecRaw == InitRaw /\ [][Next]_vars

NextKeys ==
    \/ LoadData
    \/ CallFlightsPerDay
    \/ CallOffloadedPerDay
    \/ CallByAirline
    \/ CallByDestination
    \/ CallByFinalDestination
    \/ CallByTail

\* all six aggregates of the library, on records with null keys
SpecKeys == InitKeys /\ [][NextKeys]_vars

NextCalls == LoadData \/ \E t \in Threads : Begin(t) \/ Assign(t) \/ Return(t)

\* aggregator calls running in threads on the loaded table
SpecCalls == InitCalls /\ [][NextCalls]_vars

---------------------------------------------------------------------------
(* Vocabulary of the properties, stated on the cells themselves. *)

\* the calendar day of a timestamp cell
DayOf(c) == c.v \div TicksPerDay

\* a count cell as a number, an empty one as 0
Val0(c) == IF c.k = "num" THEN c.v ELSE 0

\* the sum of f over the indices S
RECURSIVE SumOver(_, _)
SumOver(S, f) ==
    IF S = {} THEN 0
    ELSE LET i == CHOOSE j \in S : TRUE IN f[i] + SumOver(S \ {i}, f)

\* the source rows dated on day d
OnDay(d) == {i \in 1..Len(source) : source[i].Date # Null /\ DayOf(source[i].Date) = d}

\* the source rows that have a total
WithTotal == {i \in 1..Len(source) : source[i].Deportees # Null}

\* the days on which the rows I fall
DaysOf(I) == {DayOf(source[i].Date) : i \in {j \in I : source[j].Date # Null}}

\* table has exactly the days from the first to the last of days, one row each,
\* in ascending order
Contiguous(table, days) ==
    days # {} =>
        LET lo == CHOOSE d \in days : \A e \in days : d <= e
            hi == CHOOSE d \in days : \A e \in days : d >= e
        IN  /\ Len(table) = hi - lo + 1
            /\ \A i \in 1..Len(table) : table[i].Date = Num((lo + i - 1) * TicksPerDay)

FlightsCalled == pc = "loaded" /\ result.fn = "aggregate_flights_per_day"

OffloadedCalled == pc = "loaded" /\ result.fn = "aggregate_detainees_offloaded_per_day"

---------------------------------------------------------------------------
(* C1: every date-keyed aggregate (the daily totals, flights per day,      *)
(* offloaded per day) of an input with at least one dated record has       *)
(* exactly one row for each calendar day from the first to the last        *)
(* observed day, no other row, in ascending order of date.                 *)
C1_GapFilledContiguous ==
    /\ pc = "loaded" => Contiguous(daily_data, DaysOf(WithTotal))
    /\ FlightsCalled => Contiguous(result.rows, DaysOf(1..Len(source)))
    /\ OffloadedCalled => Contiguous(result.rows, DaysOf(1..Len(source)))

\* two records two days apart: the day between them is in all the series
C1_Witness ==
    /\ FlightsCalled
    /\ Len(source) = 2
    /\ DaysOf(WithTotal) = {1, 3}
    /\ Len(daily_data) = 3
    /\ Len(result.rows) = 3

(* C2: a record with a null total contributes to no aggregate the          *)
(* dashboard shows: every chart is the one the same view gives when the    *)
(* null-total records are taken out of the flight table.                   *)
C2_NullTotalExcluded ==
    pc = "serving" =>
        chart.rows = daily_chart(view_type, daily_data, non_null_detainees(flight_data),
                                 start_date, end_date)

(* C3: in every row of the normalized table the observed count is the      *)
(* source's, 0 when absent, and the estimated count is total minus         *)
(* observed, unclamped: negative exactly when observed exceeds total (and  *)
(* NaN where the total is).                                                *)
C3_EstimatedIsTotalMinusObserved ==
    pc = "loaded" =>
        /\ Len(flight_data) = Len(source)
        /\ \A i \in 1..Len(source) :
               LET observed == Val0(source[i].Deportee_observed)
                   r == flight_data[i]
               IN  /\ r.Deportee_observed = Num(observed)
                   /\ r.Deportees = source[i].Deportees
                   /\ IF source[i].Deportees = Null
                      THEN r.Deportees_Estimated = Null
                      ELSE /\ r.Deportees_Estimated = Num(source[i].Deportees.v - observed)
                           /\ r.Deportees_Estimated.v < 0 <=> observed > source[i].Deportees.v

\* a record observed above its total: the estimate is negative
C3_Witness ==
    /\ pc = "loaded"
    /\ \E i \in 1..Len(source) :
           /\ source[i].Deportees = Num(0)
           /\ source[i].Deportee_observed = Num(1)
           /\ flight_data[i].Deportees_Estimated = Num(0 - 1)

(* C4: a row that gap-filling inserts for a day with no record has total = *)
(* observed = estimated = 0 and an empty method summary (Flight_Count = 0, *)
(* Deportees Off = 0 in the other two series); the rows of the days that   *)
(* have records are the grouped rows, unchanged.                           *)
C4_GapRowsAreZero ==
    /\ pc = "loaded" =>
           /\ \A i \in 1..Len(daily_data) :
                  OnDay(DayOf(daily_data[i].Date)) \cap WithTotal = {} =>
                      /\ daily_data[i].Deportees = Num(0)
                      /\ daily_data[i].Deportee_observed = Num(0)
                      /\ daily_data[i].Deportees_Estimated = Num(0)
                      /\ daily_data[i].Est_Method = Str(<<>>)
           /\ SelectSeq(daily_data,
                        LAMBDA r : OnDay(DayOf(r.Date)) \cap WithTotal # {})
                  = DailyGroups(non_null_detainees(flight_data))
    /\ FlightsCalled =>
           /\ \A i \in 1..Len(result.rows) :
                  OnDay(DayOf(result.rows[i].Date)) = {} =>
                      result.rows[i].Flight_Count = Num(0)
           /\ SelectSeq(result.rows, LAMBDA r : OnDay(DayOf(r.Date)) # {})
                  = FlightsPerDayGroups(flight_data)
    /\ OffloadedCalled =>
           /\ \A i \in 1..Len(result.rows) :
                  OnDay(DayOf(result.rows[i].Date)) = {} =>
                      result.rows[i].Deportees_Off = Num(0)
           /\ SelectSeq(result.rows, LAMBDA r : OnDay(DayOf(r.Date)) # {})
                  = OffloadedGroups(flight_data)

\* days 1 and 3 have a record of one deportee, day 2 has none
C4_Witness ==
    /\ OffloadedCalled
    /\ Len(source) = 2
    /\ OnDay(2) = {}
    /\ Len(daily_data) = 3
    /\ daily_data[1].Deportees = Num(1)
    /\ daily_data[2].Deportees = Num(0)
    /\ daily_data[2].Est_Method = Str(<<>>)
    /\ daily_data[3].Deportees = Num(1)
    /\ result.rows[2].Deportees_Off = Num(0)

(* C5: for each date that has a record with a total, the daily row of that *)
(* date holds the sums of total, observed and estimated over exactly the   *)
(* records of that date that have a total, and its method summary is the   *)
(* merge of the method codes of exactly those records.                     *)
C5_DailySums ==
    pc = "loaded" =>
        \A d \in DaysOf(WithTotal) :
            LET I == OnDay(d) \cap WithTotal
                total == [i \in I |-> source[i].Deportees.v]
                observed == [i \in I |-> Val0(source[i].Deportee_observed)]
                estimated == [i \in I |-> total[i] - observed[i]]
                records == SelectSeq(source,
                               LAMBDA r : r.Date # Null /\ DayOf(r.Date) = d
                                          /\ r.Deportees # Null)
                rows == SelectSeq(daily_data, LAMBDA r : r.Date = Num(d * TicksPerDay))
            IN  /\ Len(rows) = 1
                /\ rows[1].Deportees = Num(SumOver(I, total))
                /\ rows[1].Deportee_observed = Num(SumOver(I, observed))
                /\ rows[1].Deportees_Estimated = Num(SumOver(I, estimated))
                /\ rows[1].Est_Method = _format_est_methods(Column(records, "Est_Method"))

\* the documented scenario, in small numbers: day 1 estimated from vehicles,
\* the last day fully observed with no method
C5_Witness ==
    /\ pc = "loaded"
    /\ Len(source) = 2
    /\ source[1].Est_Method = Str(<<"V">>)
    /\ source[2].Deportee_observed = Num(1)
    /\ Len(daily_data) = 3
    /\ daily_data[1].Deportees_Estimated = Num(1)
    /\ daily_data[1].Est_Method = Str(<<DescV>>)
    /\ daily_data[3].Deportees = Num(1)
    /\ daily_data[3].Deportees_Estimated = Num(0)
    /\ daily_data[3].Est_Method = Str(<<>>)

---------------------------------------------------------------------------
(* The category-keyed aggregates. *)

\* str.lower()
Lower(s) == [i \in 1..Len(s) |-> LowerOf(s[i])]

\* a name up to case and surrounding whitespace
Fold(s) == Lower(Strip(s))

ByAirlineCalled == pc = "loaded" /\ result.fn = "aggregate_detainees_by_airline"

CategoryCalled ==
    /\ pc = "loaded"
    /\ result.fn \in {"aggregate_detainees_by_airline", "aggregate_detainees_by_destination",
                      "aggregate_detainees_by_final_destination",
                      "aggregate_detainees_by_tail"}

(* C6: the by-airline aggregate has one bucket per airline name up to case *)
(* and surrounding whitespace, named by the trimmed, title-cased name; a   *)
(* bucket's sums run over all the records of its name, and a record with a *)
(* null airline is in no bucket.                                           *)
C6_AirlineBuckets ==
    ByAirlineCalled =>
        LET rows == result.rows
            Named == {i \in 1..Len(source) : source[i].Airline # Null}
            Members(k) == {i \in Named : Fold(source[i].Airline.s) = Fold(rows[k].Airline.s)}
            total == [i \in 1..Len(source) |-> Val0(source[i].Deportees)]
            observed == [i \in 1..Len(source) |-> Val0(source[i].Deportee_observed)]
            estimated == [i \in 1..Len(source) |->
                             IF source[i].Deportees = Null THEN 0
                             ELSE total[i] - observed[i]]
        IN  /\ \A i \in Named : \E k \in 1..Len(rows) : i \in Members(k)
            /\ \A k, l \in 1..Len(rows) :
                   k # l => Fold(rows[k].Airline.s) # Fold(rows[l].Airline.s)
            /\ \A k \in 1..Len(rows) :
                   /\ Members(k) # {}
                   /\ \A i \in Members(k) : rows[k].Airline.s = Title(Strip(source[i].Airline.s))
                   /\ rows[k].Deportees = Num(SumOver(Members(k), total))
                   /\ rows[k].Deportee_observed = Num(SumOver(Members(k), observed))
                   /\ rows[k].Deportees_Estimated = Num(SumOver(Members(k), estimated))

\* the documented scenario, in small numbers: a null airline and one name
\* written in two ways give the single row "Ad" with the two named totals
C6_Witness ==
    /\ ByAirlineCalled
    /\ Len(source) = 3
    /\ source[1].Airline = Null /\ source[1].Deportees = Num(2)
    /\ source[2].Airline = Str(<<" ", "A", "D">>) /\ source[2].Deportees = Num(1)
    /\ source[3].Airline = Str(<<"a", "d">>) /\ source[3].Deportees = Num(2)
    /\ Len(result.rows) = 1
    /\ result.rows[1].Airline = Str(<<"A", "d">>)
    /\ result.rows[1].Deportees = Num(3)

(* C7: every category-keyed aggregate (by airline, destination, final      *)
(* destination, tail) returns its rows in ascending order of the summed    *)
(* total, so that the last row has the largest total.                      *)
C7_SortedAscending ==
    CategoryCalled =>
        LET rows == result.rows
        IN  /\ \A i, j \in 1..Len(rows) : i < j => rows[i].Deportees.v <= rows[j].Deportees.v
            /\ \A i \in 1..Len(rows) : rows[i].Deportees.v <= rows[Len(rows)].Deportees.v

\* two destinations whose order by total is the reverse of their order by name
C7_Witness ==
    /\ pc = "loaded"
    /\ result.fn = "aggregate_detainees_by_destination"
    /\ Len(result.rows) = 2
    /\ result.rows[1].To = Str(<<"OMA">>)
    /\ result.rows[2].To = Str(<<"MSP">>)
    /\ result.rows[1].Deportees.v < result.rows[2].Deportees.v

---------------------------------------------------------------------------
(* The estimation-method summary. *)

EstCalled == pc = "called"

\* the known codes among the stripped, non-null codes of the argument
CodesPresent ==
    {code \in EstMethodCodes :
        \E i \in 1..Len(arg) : arg[i] # Null /\ Strip(StrOf(arg[i])) = code}

\* the description's place in the alphabetical order of the codes A, O, V
Rank(description) ==
    CASE description = DescA -> 1
      [] description = DescO -> 2
      [] description = DescV -> 3
      [] OTHER -> 0

(* C8: the summary depends only on the codes present, not on their order:  *)
(* every permutation of the input codes gives the same summary.            *)
C8_OrderIndependent ==
    EstCalled =>
        \A p \in Perms(Len(arg)) :
            _format_est_methods([i \in 1..Len(arg) |-> arg[p[i]]]) = ret

\* V before A in the input, A before V in the summary
C8_Witness ==
    /\ EstCalled
    /\ Len(arg) = 2
    /\ arg[1] = Str(<<"V">>)
    /\ arg[2] = Str(<<"A">>)
    /\ ret = Str(<<DescA, "; ", DescV>>)

(* C9: the summary is a text, never null: the descriptions of the known    *)
(* codes (V, A, O) present among the stripped codes, in alphabetical order *)
(* of the code, joined with "; "; null and unknown codes add nothing, and  *)
(* with no known code the summary is the empty text.                       *)
C9_Summary ==
    EstCalled =>
        /\ ret.k = "str"
        /\ LET text == ret.s
               n == (Len(text) + 1) \div 2
           IN  /\ text # <<>> => Len(text) = 2 * n - 1
               /\ \A i \in 1..Len(text) : i % 2 = 0 => text[i] = "; "
               /\ {text[2 * i - 1] : i \in 1..n}
                      = {EST_METHOD_DESCRIPTIONS(code) : code \in CodesPresent}
               /\ \A i, j \in 1..n : i < j => Rank(text[2 * i - 1]) <= Rank(text[2 * j - 1])
               /\ CodesPresent = {} => text = <<>>

\* a null, an unknown code and two known codes, one written with a blank
C9_Witness ==
    /\ EstCalled
    /\ Len(arg) = 3
    /\ \E i \in 1..3 : arg[i] = Str(<<"X">>) \/ arg[i] = Null
    /\ \E i \in 1..3 : arg[i] = Str(<<" ", "V">>)
    /\ \E i \in 1..3 : arg[i] = Str(<<"O", " ">>)
    /\ ret = Str(<<DescO, "; ", DescV>>)

---------------------------------------------------------------------------
(* The final destination. *)

\* the places of a route text that hold a run of letters
CodePlaces(s) == {i \in 1..Len(s) : s[i] # "-" /\ s[i] # " "}

Largest(S) == CHOOSE x \in S : \A y \in S : x >= y

Smallest(S) == CHOOSE x \in S : \A y \in S : x <= y

\* the stop that holds place k: what lies between the dashes around k, trimmed
StopAt(s, k) ==
    LET a == Largest({0} \cup {i \in 1..k : s[i] = "-"}) + 1
        b == Smallest({Len(s) + 1} \cup {i \in k..Len(s) : s[i] = "-"}) - 1
        inside == {i \in a..b : s[i] # " "}
    IN  [from |-> a, text |-> SubSeq(s, Smallest(inside), Largest(inside))]

\* the rule: the last stop upper-cased, or the one before it when the last is
\* MSP in any case and there is one before it; null when there is no stop
FinalDestinationRule(route) ==
    IF route.k # "str" THEN Null
    ELSE IF CodePlaces(route.s) = {} THEN Null
    ELSE LET s == route.s
             last == StopAt(s, Largest(CodePlaces(s)))
             earlier == {i \in CodePlaces(s) : i < last.from}
         IN  IF earlier # {} /\ last.text \in {<<"MSP">>, <<"msp">>}
             THEN Str(Upper(StopAt(s, Largest(earlier)).text))
             ELSE Str(Upper(last.text))

(* C10 as stated: the rule, and "HRL-MSP-OMA-HRL" gives "OMA", "MSP-ORD"   *)
(* gives "ORD".                                                            *)
C10_AsStated ==
    pc = "called" =>
        /\ ret = FinalDestinationRule(arg)
        /\ arg = RouteHrlMspOmaHrl => ret = Str(<<"OMA">>)
        /\ arg = RouteMspOrd => ret = Str(<<"ORD">>)

(* C10, amended: the final destination is the last non-empty trimmed stop  *)
(* of the route split on '-', upper-cased, or the second-to-last when the  *)
(* last is "MSP" in any case and at least two stops remain; a route that   *)
(* is absent, not a text, blank or without a non-empty segment gives null; *)
(* "HRL-MSP-OMA-HRL" gives "HRL" (its last stop is not MSP) and "MSP-ORD"  *)
(* gives "ORD".                                                            *)
C10_FinalDestination ==
    pc = "called" =>
        /\ ret = FinalDestinationRule(arg)
        /\ arg = RouteHrlMspOmaHrl => ret = Str(<<"HRL">>)
        /\ arg = RouteMspOrd => ret = Str(<<"ORD">>)

\* a trailing MSP is skipped and the stop before it upper-cased
C10_Witness ==
    /\ pc = "called"
    /\ arg = Str(<<"oma", " ", "-", "msp">>)
    /\ ret = Str(<<"OMA">>)

---------------------------------------------------------------------------
(* The sheet reader and the coercions. *)

\* a count cell that is no number: a text not made of digits
NotANumber(c) == c.k = "str" /\ \A n \in 0..9 : c.s # NatToStr(n)

\* a date cell that is no date: the texts of the model
NotADate(c) == c.k = "str"

\* the sheet has a row at index 1 that names all the columns
Headed ==
    /\ Len(df_raw) >= 2
    /\ \A p \in 1..Len(ColumnNames) :
           \E q \in 1..Len(df_raw[2]) : df_raw[2][q] = Str(<<ColumnNames[p]>>)

\* the places of the data rows in the sheet: index 2 up to the last two rows
DataPlaces == 3..(Len(df_raw) - 2)

\* the cell of the sheet's row at place i in the column the header calls name
RawCell(i, name) == df_raw[i][CHOOSE q \in 1..Len(df_raw[2]) : df_raw[2][q] = Str(<<name>>)]

\* load_data has run on a sheet with a header
Coerced == pc # "start" /\ Headed

\* a data row has a date or a total that cannot be parsed
FatalCell ==
    \E i \in DataPlaces :
        NotADate(RawCell(i, "Date")) \/ NotANumber(RawCell(i, "Deportees"))

\* a data row has an observed or offloaded count that cannot be parsed
SoftCell ==
    \E i \in DataPlaces :
        NotANumber(RawCell(i, "Deportee_observed")) \/ NotANumber(RawCell(i, "Deportees_Off"))

(* C11: an observed or offloaded count that cannot be parsed counts as     *)
(* absent, 0: when the dates and totals of the sheet parse, load_data      *)
(* returns the table of all the data rows, with observed 0 where the cell  *)
(* was unparseable, and the offloaded series holds numbers only.           *)
C11_SoftCoercionRecovered ==
    (Coerced /\ SoftCell /\ ~FatalCell) =>
        /\ Len(flight_data) = Cardinality(DataPlaces)
        /\ \A i \in DataPlaces :
               NotANumber(RawCell(i, "Deportee_observed"))
                   => flight_data[i - 2].Deportee_observed = Num(0)
        /\ chart.view = "detainees_offloaded" =>
               \A i \in 1..Len(chart.rows) : chart.rows[i].Deportees_Off.k = "num"

(* C12: when a data row has an unparseable date or total, load_data raises *)
(* and hands over neither table, whatever the other rows hold; no chart is *)
(* ever drawn and nothing is aggregated.                                   *)
C12_AllOrNothing ==
    (Coerced /\ FatalCell) =>
        /\ pc = "failed"
        /\ daily_data = <<>>
        /\ flight_data = <<>>
        /\ chart = NoChart
        /\ result = NoResult

\* a good flight followed by one whose total is a text: nothing is loaded
C12_Witness ==
    /\ pc = "failed"
    /\ df_raw = <<TitleRow, HeaderRow, RawRow(FlightA),
                  RawRow([FlightA EXCEPT !.Deportees = BadCell]),
                  BlankRow, TotalsRow(<<FlightA>>)>>
    /\ flight_data = <<>>

(* C13: a sheet of fewer than four rows is rejected: load_data raises and  *)
(* returns no table.                                                       *)
C13_ShortSourceRejected == Len(df_raw) < 4 => pc \notin {"loaded", "serving"}

(* C14: the column names are those of the row at index 1, the data rows    *)
(* are the rows from index 2 up to but excluding the last two, in their    *)
(* order, each cell under the name its column has in the header; row 0 and *)
(* the last two rows are never data, whatever they hold.                   *)
C14_ReaderWindow ==
    pc \in {"loaded", "serving"} =>
        LET n == Len(df_raw)
            total == [i \in DataPlaces |-> Val0(RawCell(i, "Deportees"))]
        IN  /\ Len(flight_data) = (IF n > 4 THEN n - 4 ELSE 0)
            /\ \A i \in 1..Len(flight_data) :
                   \A name \in {"Date", "Deportees", "Est_Method", "Airline", "To", "Tail",
                                 "Days_Route", "Deportees_Off"} :
                       flight_data[i][name] = RawCell(i + 2, name)
            /\ Sum(Column(daily_data, "Deportees")) = SumOver(DataPlaces, total)

\* a flight in the title row and in both last rows, one flight between: the
\* table has the one flight
C14_Witness ==
    /\ pc = "loaded"
    /\ df_raw = <<RawRow(FlightA), HeaderRow, RawRow(FlightA), RawRow(FlightB), RawRow(FlightB)>>
    /\ Len(flight_data) = 1
    /\ flight_data[1].Date = Midnight(1)
    /\ Len(daily_data) = 1

---------------------------------------------------------------------------
(* The date-range filter of the dashboard. *)

(* C15: a user action (set the start date, set the end date, reset) on a   *)
(* range with start <= end leaves a range with start <= end.               *)
C15_RangeStaysOrdered ==
    [][(pc = "serving" /\ start_date <= end_date) => start_date' <= end_date']_vars

\* the records whose calendar day lies in the selected range, bounds included
RecordsInRange ==
    SelectSeq(flight_data,
              LAMBDA r : r.Date # Null /\ start_date <= DayOf(r.Date)
                                      /\ DayOf(r.Date) <= end_date)

(* C16: every view shows the aggregate of the records whose date lies in   *)
(* the selected range: the records are filtered first, then grouped and    *)
(* gap-filled over their own first to last day; so too the daily totals.   *)
C16_FilterBeforeAggregate ==
    pc = "serving" =>
        chart.rows =
            CASE view_type = "daily_detainees" -> daily_summary(RecordsInRange)
              [] view_type = "flights_per_day" -> aggregate_flights_per_day(RecordsInRange)
              [] view_type = "detainees_offloaded" ->
                    aggregate_detainees_offloaded_per_day(RecordsInRange)
              [] view_type = "detainees_by_airline" ->
                    aggregate_detainees_by_airline(RecordsInRange)
              [] view_type = "detainees_by_destination" ->
                    aggregate_detainees_by_destination(RecordsInRange)

---------------------------------------------------------------------------
(* The aggregators and the table they are given. *)

\* the call of thread t has returned
Done(t) == calls[t].pc = "done"

\* what aggregator fn returns when it runs alone on the table load_data returned
Alone(fn) ==
    LET table == df_clean_of(source)
    IN  CASE fn = "aggregate_flights_per_day" -> aggregate_flights_per_day(table)
          [] fn = "aggregate_detainees_offloaded_per_day" ->
                aggregate_detainees_offloaded_per_day(table)
          [] fn = "aggregate_detainees_by_airline" -> aggregate_detainees_by_airline(table)
          [] fn = "aggregate_detainees_by_destination" ->
                aggregate_detainees_by_destination(table)
          [] fn = "aggregate_detainees_by_final_destination" ->
                aggregate_detainees_by_final_destination(table)
          [] fn = "aggregate_detainees_by_tail" -> aggregate_detainees_by_tail(table)

(* C17: no aggregator modifies the table it is given: whatever calls have  *)
(* run or are running, the normalized table is the one load_data returned, *)
(* and its Airline, Tail and 'Deportees Off' cells are the sheet's, not    *)
(* normalized and not coerced.                                             *)
C17_TableUntouched ==
    pc = "loaded" =>
        /\ flight_data = df_clean_of(source)
        /\ \A i \in 1..Len(source) :
               /\ flight_data[i].Airline = source[i].Airline
               /\ flight_data[i].Tail = source[i].Tail
               /\ flight_data[i].Deportees_Off = source[i].Deportees_Off

\* by-airline and offloaded-per-day have returned, and the first record still
\* has its airline with the blank, its tail with the blank and its text count
C17_Witness ==
    /\ Done(1) /\ calls[1].fn = "aggregate_detainees_by_airline"
    /\ Done(2) /\ calls[2].fn = "aggregate_detainees_offloaded_per_day"
    /\ Len(calls[1].ret) = 1
    /\ calls[1].ret[1].Airline = Str(<<"A", "d">>)
    /\ calls[2].ret[1].Deportees_Off = Num(0)
    /\ flight_data[1].Airline = Str(<<" ", "A", "D">>)
    /\ flight_data[1].Tail = Str(<<"OMA", " ">>)
    /\ flight_data[1].Deportees_Off = BadCell

(* C18: however the steps of the running aggregator calls interleave, a    *)
(* call returns what it returns when it runs alone on the loaded table.    *)
C18_InterleavingFree == \A t \in Threads : Done(t) => calls[t].ret = Alone(calls[t].fn)

\* flights-per-day has returned both records while by-airline, in another
\* thread, stands between its column assignment and its grouping
C18_Witness ==
    /\ Done(1) /\ calls[1].fn = "aggregate_flights_per_day"
    /\ calls[2].pc = "assigned" /\ calls[2].fn = "aggregate_detainees_by_airline"
    /\ Len(source) = 2
    /\ source[1].Airline = Null
    /\ Len(calls[2].local) = 1
    /\ calls[1].ret = <<[Date |-> Midnight(1), Flight_Count |-> Num(2)]>>

---------------------------------------------------------------------------
(* Null grouping keys. *)

\* the column a category aggregate is keyed on
KeyColumn(fn) ==
    CASE fn = "aggregate_detainees_by_airline" -> "Airline"
      [] fn = "aggregate_detainees_by_destination" -> "To"
      [] fn = "aggregate_detainees_by_final_destination" -> "Final_Destination"
      [] fn = "aggregate_detainees_by_tail" -> "Tail"

\* the key of source row r in the aggregate fn: null, or the name of its bucket
KeyOf(fn, r) ==
    CASE fn = "aggregate_detainees_by_airline" ->
            IF r.Airline = Null THEN Null ELSE Str(Title(Strip(r.Airline.s)))
      [] fn = "aggregate_detainees_by_destination" -> r.To
      [] fn = "aggregate_detainees_by_final_destination" -> FinalDestinationRule(r.Days_Route)
      [] fn = "aggregate_detainees_by_tail" ->
            IF r.Tail = Null THEN Null ELSE Str(Strip(r.Tail.s))

(* C19: a record with a null grouping key is left out of the aggregate     *)
(* keyed on that field only: it stays in the normalized table, it counts   *)
(* in the daily totals and in flights-per-day, and it is in the bucket of  *)
(* its key in every category aggregate for which its key is not null.      *)
C19_NullKeyLocal ==
    pc = "loaded" =>
        LET total == [i \in 1..Len(source) |-> Val0(source[i].Deportees)]
            one == [i \in 1..Len(source) |-> 1]
        IN  /\ Len(flight_data) = Len(source)
            /\ \A i \in 1..Len(source) :
                   /\ flight_data[i].Airline = source[i].Airline
                   /\ flight_data[i].To = source[i].To
                   /\ flight_data[i].Tail = source[i].Tail
                   /\ flight_data[i].Days_Route = source[i].Days_Route
            /\ \A d \in DaysOf(WithTotal) :
                   \E k \in 1..Len(daily_data) :
                       /\ daily_data[k].Date = Num(d * TicksPerDay)
                       /\ daily_data[k].Deportees = Num(SumOver(OnDay(d) \cap WithTotal, total))
            /\ FlightsCalled =>
                   \A d \in DaysOf(1..Len(source)) :
                       \E k \in 1..Len(result.rows) :
                           /\ result.rows[k].Date = Num(d * TicksPerDay)
                           /\ result.rows[k].Flight_Count = Num(SumOver(OnDay(d), one))
            /\ CategoryCalled =>
                   LET fn == result.fn
                       rows == result.rows
                       Keyed == {i \in 1..Len(source) : KeyOf(fn, source[i]) # Null}
                       Bucket(k) == {i \in Keyed : KeyOf(fn, source[i]) = rows[k][KeyColumn(fn)]}
                   IN  /\ \A i \in Keyed : \E k \in 1..Len(rows) : i \in Bucket(k)
                       /\ \A k \in 1..Len(rows) :
                              /\ Bucket(k) # {}
                              /\ rows[k].Deportees = Num(SumOver(Bucket(k), total))

\* a record with no airline but a destination, and one with an airline but no
\* destination, on the same day: by destination the first alone, in the
\* daily total both
C19_Witness ==
    /\ pc = "loaded"
    /\ result.fn = "aggregate_detainees_by_destination"
    /\ Len(source) = 2
    /\ source[1].Airline = Null /\ source[1].To = Str(<<"OMA">>)
    /\ source[2].Airline = Str(<<"a", "d">>) /\ source[2].To = Null
    /\ result.rows = <<[To |-> Str(<<"OMA">>), Deportees |-> Num(1),
                        Deportee_observed |-> Num(0), Deportees_Estimated |-> Num(1),
                        Est_Method |-> Str(<<>>)]>>
    /\ Len(daily_data) = 1
    /\ daily_data[1].Deportees = Num(2)
    /\ Len(flight_data) = 2

(* C20: the by-destination, by-final-destination and by-tail aggregates    *)
(* group on the trimmed key: every bucket is named by a trimmed text, and  *)
(* no two buckets have names that differ only by surrounding whitespace.   *)
C20_TrimmedKeys ==
    (/\ pc = "loaded"
     /\ result.fn \in {"aggregate_detainees_by_destination",
                       "aggregate_detainees_by_final_destination",
                       "aggregate_detainees_by_tail"}) =>
        LET rows == result.rows
            name == [k \in 1..Len(rows) |-> rows[k][KeyColumn(result.fn)].s]
        IN  /\ \A k \in 1..Len(rows) : name[k] = Strip(name[k])
            /\ \A k, l \in 1..Len(rows) : k # l => Strip(name[k]) # Strip(name[l])

---------------------------------------------------------------------------
(* The date-keyed aggregates, once more. *)

\* all the source rows
AllRecords == 1..Len(source)

(* C21: a date-keyed aggregate whose input has no record to group (no      *)
(* record at all, or none with a date; for the daily totals none with a    *)
(* date and a total) is empty: no row, no invented date range, no error.   *)
C21_EmptyInEmptyOut ==
    /\ pc = "loaded" => (DaysOf(WithTotal) = {} => daily_data = <<>>)
    /\ FlightsCalled => (DaysOf(AllRecords) = {} => result.rows = <<>>)
    /\ OffloadedCalled => (DaysOf(AllRecords) = {} => result.rows = <<>>)

\* a sheet with no data row: all three series are empty
C21_Witness ==
    /\ OffloadedCalled
    /\ source = <<>>
    /\ Len(df_raw) = 4
    /\ daily_data = <<>>
    /\ result.rows = <<>>

(* C22: flights-per-day has, for each date that has records, one row with  *)
(* the number of records of that date, whatever their counts are, null     *)
(* totals included; its rows have the columns Date and Flight_Count only.  *)
C22_FlightsCounted ==
    FlightsCalled =>
        /\ \A d \in DaysOf(AllRecords) :
               \E k \in 1..Len(result.rows) :
                   /\ result.rows[k].Date = Num(d * TicksPerDay)
                   /\ result.rows[k].Flight_Count = Num(Cardinality(OnDay(d)))
        /\ \A k \in 1..Len(result.rows) : DOMAIN result.rows[k] = {"Date", "Flight_Count"}

\* two records on day 1, one of them without a total: two flights
C22_Witness ==
    /\ FlightsCalled
    /\ Len(source) = 2
    /\ source[1].Date = Midnight(1) /\ source[1].Deportees = Null
    /\ source[2].Date = Num(TicksPerDay + TicksPerDay - 1) /\ source[2].Deportees = Num(1)
    /\ result.rows = <<[Date |-> Midnight(1), Flight_Count |-> Num(2)]>>

(* C23: offloaded-per-day has, for each date that has records, one row     *)
(* with the sum of the offloaded counts of that date's records, a null or  *)
(* non-numeric count being 0; the totals, observed and estimated counts of *)
(* the records play no part.                                               *)
C23_OffloadedSummed ==
    OffloadedCalled =>
        LET off == [i \in AllRecords |-> Val0(source[i].Deportees_Off)]
        IN  \A d \in DaysOf(AllRecords) :
                \E k \in 1..Len(result.rows) :
                    /\ result.rows[k].Date = Num(d * TicksPerDay)
                    /\ result.rows[k].Deportees_Off = Num(SumOver(OnDay(d), off))

\* a text count on a record without a total and a count of 1 on a record
\* with one, the same day: 1 offloaded
C23_Witness ==
    /\ OffloadedCalled
    /\ Len(source) = 2
    /\ source[1].Deportees_Off = BadCell /\ source[1].Deportees = Null
    /\ source[2].Deportees_Off = Num(1) /\ source[2].Deportees = Num(1)
    /\ result.rows = <<[Date |-> Midnight(1), Deportees_Off |-> Num(1)]>>

---------------------------------------------------------------------------
(* Invariants of the sums, the summaries and the final destination. *)

(* C24: in every row of a chart that carries the three sums (the daily     *)
(* totals, by airline, by destination) the summed estimated count is the   *)
(* summed total minus the summed observed count.                           *)
C24_SumsConsistent ==
    (/\ pc = "serving"
     /\ view_type \in {"daily_detainees", "detainees_by_airline",
                       "detainees_by_destination"}) =>
        \A k \in 1..Len(chart.rows) :
            chart.rows[k].Deportees_Estimated.v
                = chart.rows[k].Deportees.v - chart.rows[k].Deportee_observed.v

(* C25: in the summary of the estimation methods each description appears  *)
(* at most once, also when the codes differ only by surrounding blanks.    *)
C25_DescriptionsOnce ==
    EstCalled =>
        LET text == ret.s
            n == (Len(text) + 1) \div 2
        IN  \A i, j \in 1..n : i < j => text[2 * i - 1] # text[2 * j - 1]

(* C26: grouping and gap-filling conserve the counts: the totals of the    *)
(* daily series add up to the totals of the records that have one, so too  *)
(* the observed and the estimated counts, and the flight counts of the     *)
(* flights-per-day series add up to the number of records.                 *)
C26_CountsConserved ==
    LET total == [i \in AllRecords |-> Val0(source[i].Deportees)]
        observed == [i \in AllRecords |-> Val0(source[i].Deportee_observed)]
        estimated == [i \in AllRecords |-> total[i] - observed[i]]
    IN  /\ pc = "loaded" =>
               /\ Sum(Column(daily_data, "Deportees")) = SumOver(WithTotal, total)
               /\ Sum(Column(daily_data, "Deportee_observed")) = SumOver(WithTotal, observed)
               /\ Sum(Column(daily_data, "Deportees_Estimated"))
                      = SumOver(WithTotal, estimated)
        /\ FlightsCalled => Sum(Column(result.rows, "Flight_Count")) = Len(source)

(* C27: a route with at least one stop other than MSP never has the final  *)
(* destination "MSP", also when it ends in two or more MSP stops.          *)
C27_NeverMsp ==
    (/\ pc = "called"
     /\ arg.k = "str"
     /\ \E i \in CodePlaces(arg.s) : UpperOf(arg.s[i]) # "MSP") =>
        ret # Str(<<"MSP">>)

====
